---- MODULE Spec2Model ----
(***************************************************************************)
(* Model of prompt_manager_yml.PromptManager: a folder of YAML prompt      *)
(* files, an in-memory cache name -> template string, and rendering of a   *)
(* template with str.format (strict) or str.format_map (non-strict).       *)
(*                                                                         *)
(* Strings are sequences of one-character strings.  A file's content is    *)
(* the value yaml.safe_load gives for it.                                  *)
(***************************************************************************)
EXTENDS Integers, Sequences, FiniteSets, TLC

VARIABLES
    folder,     \* self._folder
    strict,     \* self._strict
    cache,      \* self._cache : name -> template string
    dir,        \* the folder on disk: file name -> entry
    last,       \* the last call on the store: arguments, outcome, file accesses
    tick,       \* flipped by every call on the store
    fresh,      \* names on which get_template has not run since the last clear_cache
    stored,     \* name -> the string of its last successful load since the last clear_cache
    repeat      \* the last call was a render that directly followed a render with the same arguments

vars == <<folder, strict, cache, dir, last, tick, fresh, stored, repeat>>

(***************************************************************************)
(* Bounds                                                                  *)
(***************************************************************************)
MaxPieces == 3

(***************************************************************************)
(* Strings                                                                 *)
(***************************************************************************)
\* code point order of the characters that occur in names
CharOrd(c) ==
    CASE c = "." -> 46
      [] c = "a" -> 97
      [] c = "b" -> 98
      [] c = "l" -> 108
      [] c = "m" -> 109
      [] c = "t" -> 116
      [] c = "x" -> 120
      [] c = "y" -> 121
      [] OTHER   -> 0

\* Python's < on str: lexicographic by code point
RECURSIVE StrLess(_, _)
StrLess(s, t) ==
    IF t = <<>> THEN FALSE
    ELSE IF s = <<>> THEN TRUE
    ELSE IF CharOrd(Head(s)) # CharOrd(Head(t)) THEN CharOrd(Head(s)) < CharOrd(Head(t))
    ELSE StrLess(Tail(s), Tail(t))

\* index of the last "." in s, 0 when there is none (str.rfind, 1-based)
RECURSIVE RFindDot(_, _)
RFindDot(s, i) ==
    IF i = 0 THEN 0
    ELSE IF s[i] = "." THEN i
    ELSE RFindDot(s, i - 1)

\* pathlib.PurePath.suffix
suffix(fname) ==
    LET i == RFindDot(fname, Len(fname))
    IN  IF 1 < i /\ i < Len(fname) THEN SubSeq(fname, i, Len(fname)) ELSE <<>>

\* pathlib.PurePath.stem
stem(fname) ==
    LET i == RFindDot(fname, Len(fname))
    IN  IF 1 < i /\ i < Len(fname) THEN SubSeq(fname, 1, i - 1) ELSE fname

YmlExt == <<".", "y", "m", "l">>
YamlExt == <<".", "y", "a", "m", "l">>
TxtExt == <<".", "t", "x", "t">>

(***************************************************************************)
(* The folder                                                              *)
(***************************************************************************)
Names == { <<"b">>, <<"a", "b">> }

\* the file names that can occur in the folder
FileNames ==
    { <<"a", "b">> \o YmlExt, <<"a", "b">> \o YamlExt, <<"b">> \o YamlExt, <<"b">> \o TxtExt }

\* template strings stored in files of the folder
TemplateA == <<"H", "{", "n", "}">>
TemplateB == <<"{", "n", "!", "r", "}", "{", "r", "}">>

\* what yaml.safe_load returns for a file (type "error": it raises YAMLError)
StrData(s)  == [type |-> "str",  has_template |-> FALSE, template_type |-> "none", text |-> s]
DictData(s) == [type |-> "dict", has_template |-> TRUE,  template_type |-> "str",  text |-> s]
DictNoTemplate == [type |-> "dict", has_template |-> FALSE, template_type |-> "none", text |-> <<>>]
DictIntTemplate == [type |-> "dict", has_template |-> TRUE, template_type |-> "int", text |-> <<"7">>]
ListData == [type |-> "list", has_template |-> FALSE, template_type |-> "none", text |-> <<>>]
BadYaml == [type |-> "error", has_template |-> FALSE, template_type |-> "none", text |-> <<>>]

Contents == { StrData(TemplateA), DictData(TemplateB), DictNoTemplate, DictIntTemplate, ListData, BadYaml }

NoData == ListData
Absent == [kind |-> "absent", data |-> NoData]
Directory == [kind |-> "dir", data |-> NoData]
RegularFile(d) == [kind |-> "file", data |-> d]

Entries == {Absent, Directory} \cup { RegularFile(d) : d \in Contents }

\* what each file name of the folder can be in the model; b.txt, which is
\* no prompt file, is always there
PossibleEntries(fname) ==
    IF fname = <<"a", "b">> \o YmlExt
        THEN {Absent, Directory, RegularFile(StrData(TemplateA)), RegularFile(DictData(TemplateB)),
              RegularFile(DictNoTemplate)}
    ELSE IF fname = <<"a", "b">> \o YamlExt
        THEN {Absent, RegularFile(StrData(TemplateA)), RegularFile(BadYaml)}
    ELSE IF fname = <<"b">> \o YamlExt
        THEN {Absent, RegularFile(StrData(TemplateA)), RegularFile(DictIntTemplate), RegularFile(ListData)}
    ELSE {RegularFile(StrData(TemplateA))}

Folders == { d \in [FileNames -> Entries] : \A f \in FileNames : d[f] \in PossibleEntries(f) }

exists(d, fname) == fname \in DOMAIN d /\ d[fname].kind # "absent"
is_file(d, fname) == fname \in DOMAIN d /\ d[fname].kind = "file"

(***************************************************************************)
(* Outcomes of a call: a returned value or a raised exception              *)
(***************************************************************************)
NoStr == <<>>

\* a call returned the string (or list) r
Returned(r) == [kind |-> "ok", msg |-> "", ret |-> r, about |-> NoStr]
\* a call raised exception class k; msg is the fixed part of its message,
\* ret the value it carries and about the prompt name it mentions
Raised(k, m, r, a) == [kind |-> k, msg |-> m, ret |-> r, about |-> a]

(***************************************************************************)
(* Internal helpers                                                        *)
(***************************************************************************)
\* _resolve_path trying .yaml before .yml
_resolve_path_yaml_first(d, name) ==
    LET c1 == name \o YamlExt
        c2 == name \o YmlExt
    IN  IF exists(d, c1) /\ is_file(d, c1)
            THEN [found |-> TRUE, path |-> c1, stats |-> <<c1>>]
        ELSE IF exists(d, c2) /\ is_file(d, c2)
            THEN [found |-> TRUE, path |-> c2, stats |-> <<c1, c2>>]
        ELSE [found |-> FALSE, path |-> NoStr, stats |-> <<c1, c2>>]

\* _resolve_path: the first candidate that exists and is a regular file;
\* stats lists the candidates looked at
_resolve_path(d, name) ==
    LET c1 == name \o YmlExt
        c2 == name \o YamlExt
    IN  IF exists(d, c1) /\ is_file(d, c1)
            THEN [found |-> TRUE, path |-> c1, stats |-> <<c1>>]
        ELSE IF exists(d, c2) /\ is_file(d, c2)
            THEN [found |-> TRUE, path |-> c2, stats |-> <<c1, c2>>]
        ELSE [found |-> FALSE, path |-> NoStr, stats |-> <<c1, c2>>]

\* _load_template_from_file on the parsed content of the file at path
_load_template_from_file(d, path) ==
    LET data == d[path].data
    IN  IF data.type = "error"
            THEN Raised("YAMLError", "", NoStr, NoStr)
        ELSE IF data.type = "str"
            THEN Returned(data.text)
        ELSE IF data.type = "dict"
            THEN IF ~data.has_template
                     THEN Raised("ValueError", "must contain either a plain string or a 'template' key", NoStr, NoStr)
                 ELSE IF data.template_type # "str"
                     THEN Raised("ValueError", "'template' must be a string", NoStr, NoStr)
                 ELSE Returned(data.text)
        ELSE Raised("ValueError", "Unsupported YAML content type", NoStr, NoStr)

EmptyCache == [n \in {} |-> NoStr]

\* a store that forgets: the assignment to the cache is lost
CacheStore_lost(c, name, template) == c

\* self._cache[name] = template
CacheStore(c, name, template) ==
    [n \in DOMAIN c \cup {name} |-> IF n = name THEN template ELSE c[n]]

\* a first branch that is never taken
cache_hit_never(c, name, use_cache) == FALSE

\* the test of get_template's first branch
cache_hit(c, name, use_cache) == use_cache /\ name \in DOMAIN c

\* get_template dropping the name's cache entry when the load fails
get_template_evicting(c, d, name, use_cache) ==
    IF use_cache /\ name \in DOMAIN c
        THEN [out |-> Returned(c[name]), cache |-> c, stats |-> <<>>, opens |-> <<>>]
    ELSE LET r == _resolve_path(d, name)
             without == [n \in DOMAIN c \ {name} |-> c[n]]
         IN  IF ~r.found
                 THEN [out |-> Raised("PromptNotFoundError", "not found in folder", NoStr, name),
                       cache |-> without, stats |-> r.stats, opens |-> <<>>]
             ELSE LET t == _load_template_from_file(d, r.path)
                  IN  IF t.kind # "ok"
                          THEN [out |-> t, cache |-> without, stats |-> r.stats, opens |-> <<r.path>>]
                      ELSE [out |-> t, cache |-> CacheStore(c, name, t.ret),
                            stats |-> r.stats, opens |-> <<r.path>>]

\* get_template: the outcome, the cache afterwards and the files looked at (stats) and read (opens)
get_template(c, d, name, use_cache) ==
    IF cache_hit(c, name, use_cache)
        THEN [out |-> Returned(c[name]), cache |-> c, stats |-> <<>>, opens |-> <<>>]
    ELSE LET r == _resolve_path(d, name)
         IN  IF ~r.found
                 THEN [out |-> Raised("PromptNotFoundError", "not found in folder", NoStr, name),
                       cache |-> c, stats |-> r.stats, opens |-> <<>>]
             ELSE LET t == _load_template_from_file(d, r.path)
                  IN  IF t.kind # "ok"
                          THEN [out |-> t, cache |-> c, stats |-> r.stats, opens |-> <<r.path>>]
                      ELSE [out |-> t, cache |-> CacheStore(c, name, t.ret),
                            stats |-> r.stats, opens |-> <<r.path>>]

\* has_prompt looking for <name>.yml only
has_prompt_yml_only(d, name) == is_file(d, name \o YmlExt)

\* has_prompt
has_prompt(d, name) == _resolve_path(d, name).found

\* sorted(names, reverse=True)
RECURSIVE sorted_descending(_)
sorted_descending(S) ==
    IF S = {} THEN <<>>
    ELSE LET m == CHOOSE x \in S : \A y \in S \ {x} : StrLess(y, x)
         IN  <<m>> \o sorted_descending(S \ {m})

\* sorted(names): ascending by StrLess
RECURSIVE sorted(_)
sorted(S) ==
    IF S = {} THEN <<>>
    ELSE LET m == CHOOSE x \in S : \A y \in S \ {x} : StrLess(x, y)
         IN  <<m>> \o sorted(S \ {m})

\* list_prompts
list_prompts(d) ==
    sorted({ stem(f) : f \in { g \in DOMAIN d : is_file(d, g) /\ suffix(g) \in {YmlExt, YamlExt} } })


(***************************************************************************)
(* str.format / str.format_map                                             *)
(*                                                                         *)
(* The templates of the model are written with the characters "{", "}",    *)
(* "!", and letters; they contain no ":", "[", "." or digit, so a field is *)
(* a name with an optional conversion.                                     *)
(***************************************************************************)
\* parameter values: a str, or an int written with its digits
StrValue(s) == [type |-> "str", text |-> s]
IntValue(s) == [type |-> "int", text |-> s]

\* str(v)
str(v) == v.text
\* repr(v)
repr(v) == IF v.type = "str" THEN <<"'">> \o v.text \o <<"'">> ELSE v.text

\* first index >= i of t holding one of the characters of S, 0 if none
RECURSIVE Find(_, _, _)
Find(t, i, S) ==
    IF i > Len(t) THEN 0
    ELSE IF t[i] \in S THEN i
    ELSE Find(t, i + 1, S)

\* parse_field: the replacement field whose text starts at k, just after its "{"
parse_field(t, k) ==
    LET m == Find(t, k, {"{", "}", "!"})
        bad == [ok |-> FALSE, name |-> NoStr, conv |-> NoStr, next |-> 0]
    IN  IF m = 0 THEN bad                                   \* expected '}' before end of string
        ELSE IF t[m] = "{" THEN bad                         \* unexpected '{' in field name
        ELSE IF t[m] = "}"
            THEN [ok |-> TRUE, name |-> SubSeq(t, k, m - 1), conv |-> NoStr, next |-> m + 1]
        ELSE IF m + 1 > Len(t) THEN bad                     \* end of string while looking for conversion
        ELSE IF m + 2 > Len(t) THEN bad                     \* unmatched '{' in format spec
        ELSE IF t[m + 2] = "}"
            THEN [ok |-> TRUE, name |-> SubSeq(t, k, m - 1), conv |-> <<t[m + 1]>>, next |-> m + 3]
        ELSE bad                                            \* expected ':' after conversion specifier

\* DefaultDict.__missing__
__missing__(key) == StrValue(<<"{">> \o key \o <<"}">>)

\* get_field_object giving the placeholder for a missing key in both modes
get_field_object_defaulting(name, params, default_dict) ==
    IF name = NoStr
        THEN IF default_dict
                 THEN Raised("ValueError", "Format string contains positional fields", NoStr, NoStr)
             ELSE Raised("IndexError", "Replacement index out of range", NoStr, NoStr)
    ELSE IF name \in DOMAIN params THEN [kind |-> "ok", msg |-> "", ret |-> params[name], about |-> NoStr]
    ELSE [kind |-> "ok", msg |-> "", ret |-> __missing__(name), about |-> NoStr]

\* get_field_object: the value a field name stands for.
\* default_dict: the mapping is render's DefaultDict and the call is format_map
get_field_object(name, params, default_dict) ==
    IF name = NoStr
        THEN IF default_dict
                 THEN Raised("ValueError", "Format string contains positional fields", NoStr, NoStr)
             ELSE Raised("IndexError", "Replacement index out of range", NoStr, NoStr)
    ELSE IF name \in DOMAIN params THEN [kind |-> "ok", msg |-> "", ret |-> params[name], about |-> NoStr]
    ELSE IF default_dict THEN [kind |-> "ok", msg |-> "", ret |-> __missing__(name), about |-> NoStr]
    ELSE Raised("KeyError", "", name, NoStr)

\* do_conversion followed by format(obj, ""): the text a field contributes
render_field(v, conv) ==
    IF conv = NoStr THEN Returned(str(v))
    ELSE IF conv = <<"r">> THEN Returned(repr(v))
    ELSE IF conv = <<"s">> THEN Returned(str(v))
    ELSE IF conv = <<"a">> THEN Returned(repr(v))
    ELSE Raised("ValueError", "Unknown conversion specifier", NoStr, NoStr)

\* do_markup: format t from index i on, acc being the output so far;
\* literal text, escaped braces and fields are handled in template order
RECURSIVE do_markup(_, _, _, _, _)
do_markup(t, i, acc, params, default_dict) ==
    IF i > Len(t) THEN Returned(acc)
    ELSE LET j == Find(t, i, {"{", "}"})
         IN  IF j = 0 THEN Returned(acc \o SubSeq(t, i, Len(t)))
             ELSE IF t[j] = "}" /\ (j = Len(t) \/ t[j + 1] # "}")
                 THEN Raised("ValueError", "Single '}' encountered in format string", NoStr, NoStr)
             ELSE IF t[j] = "{" /\ j = Len(t)
                 THEN Raised("ValueError", "Single '{' encountered in format string", NoStr, NoStr)
             ELSE IF t[j + 1] = t[j]
                 THEN do_markup(t, j + 2, acc \o SubSeq(t, i, j), params, default_dict)
             ELSE LET f == parse_field(t, j + 1)
                  IN  IF ~f.ok
                          THEN Raised("ValueError", "malformed replacement field", NoStr, NoStr)
                      ELSE LET o == get_field_object(f.name, params, default_dict)
                           IN  IF o.kind # "ok" THEN o
                               ELSE LET x == render_field(o.ret, f.conv)
                                    IN  IF x.kind # "ok" THEN x
                                        ELSE do_markup(t, f.next, acc \o SubSeq(t, i, j - 1) \o x.ret,
                                                       params, default_dict)

\* template.format(**params)
format(template, params) == do_markup(template, 1, NoStr, params, FALSE)

\* template.format_map(DefaultDict(**params))
format_map(template, params) == do_markup(template, 1, NoStr, params, TRUE)

\* render: the outcome, the cache afterwards, the file accesses and what
\* get_template gave
render(c, d, is_strict, prompt_name, params) ==
    LET g == get_template(c, d, prompt_name, TRUE)
        f == IF is_strict THEN format(g.out.ret, params) ELSE format_map(g.out.ret, params)
        out == IF g.out.kind # "ok" THEN g.out
               ELSE IF ~is_strict THEN f
               ELSE IF f.kind = "ok" THEN f
               ELSE IF f.kind = "KeyError"
                   THEN Raised("PromptRenderError", "Missing parameter", f.ret, prompt_name)
               ELSE Raised("PromptRenderError", "Error rendering prompt", NoStr, prompt_name)
    IN  [out |-> out, cache |-> g.cache, stats |-> g.stats, opens |-> g.opens, template |-> g.out]


(***************************************************************************)
(* Inputs of the calls                                                     *)
(***************************************************************************)
KeyN == <<"n">>
KeyR == <<"r">>

NoParams == [k \in {} |-> StrValue(NoStr)]
ParamsN  == [k \in {KeyN} |-> StrValue(<<"B", "o">>)]
ParamsNR == [k \in {KeyN, KeyR} |-> IF k = KeyN THEN StrValue(<<"B", "o">>) ELSE IntValue(<<"7">>)]

ParamChoices == {NoParams, ParamsN, ParamsNR}

(***************************************************************************)
(* State                                                                   *)
(***************************************************************************)
\* the record of a call: what was called, with what, its outcome and file accesses
Call(op, name, use_cache, params, out, stats, opens) ==
    [op |-> op, name |-> name, use_cache |-> use_cache, params |-> params,
     out |-> out, stats |-> stats, opens |-> opens]

NoCall == Call("none", NoStr, FALSE, NoParams, Returned(NoStr), <<>>, <<>>)

\* __init__ on an existing folder, whatever it contains
Init ==
    /\ folder = "prompts"
    /\ strict \in BOOLEAN
    /\ cache = EmptyCache
    /\ dir \in Folders
    /\ last = NoCall
    /\ tick = FALSE
    /\ fresh = {}
    /\ stored = EmptyCache
    /\ repeat = FALSE

(***************************************************************************)
(* Calls on the store                                                      *)
(***************************************************************************)
\* stored after a call on name that gave outcome out and read the files opens
Remember(st, name, out, opens) ==
    IF opens # <<>> /\ out.kind = "ok"
        THEN [n \in DOMAIN st \cup {name} |-> IF n = name THEN out.ret ELSE st[n]]
    ELSE st

ListPrompts ==
    /\ last' = Call("list_prompts", NoStr, FALSE, NoParams, Returned(list_prompts(dir)), <<>>, <<>>)
    /\ tick' = ~tick
    /\ repeat' = FALSE
    /\ UNCHANGED <<folder, strict, cache, dir, fresh, stored>>

\* has_prompt answering by loading the prompt, which caches it
HasPrompt_loading(name) ==
    LET g == get_template(cache, dir, name, TRUE)
    IN  /\ last' = Call("has_prompt", name, FALSE, NoParams,
                        [kind |-> "ok", msg |-> "", ret |-> <<g.out.kind # "PromptNotFoundError">>, about |-> NoStr],
                        g.stats, g.opens)
        /\ cache' = g.cache
        /\ tick' = ~tick
        /\ repeat' = FALSE
        /\ UNCHANGED <<folder, strict, dir, fresh, stored>>

HasPrompt(name) ==
    LET r == _resolve_path(dir, name)
    IN  /\ last' = Call("has_prompt", name, FALSE, NoParams,
                        [kind |-> "ok", msg |-> "", ret |-> <<has_prompt(dir, name)>>, about |-> NoStr],
                        r.stats, <<>>)
        /\ tick' = ~tick
        /\ repeat' = FALSE
        /\ UNCHANGED <<folder, strict, cache, dir, fresh, stored>>

GetTemplate(name, use_cache) ==
    LET g == get_template(cache, dir, name, use_cache)
    IN  /\ cache' = g.cache
        /\ last' = Call("get_template", name, use_cache, NoParams, g.out, g.stats, g.opens)
        /\ tick' = ~tick
        /\ fresh' = fresh \ {name}
        /\ stored' = Remember(stored, name, g.out, g.opens)
        /\ repeat' = FALSE
        /\ UNCHANGED <<folder, strict, dir>>

Render(prompt_name, params) ==
    LET r == render(cache, dir, strict, prompt_name, params)
    IN  /\ cache' = r.cache
        /\ last' = Call("render", prompt_name, TRUE, params, r.out, r.stats, r.opens)
        /\ tick' = ~tick
        /\ fresh' = fresh \ {prompt_name}
        /\ stored' = Remember(stored, prompt_name, r.template, r.opens)
        /\ repeat' = (last.op = "render" /\ last.name = prompt_name /\ last.params = params)
        /\ UNCHANGED <<folder, strict, dir>>

\* clear_cache that leaves the entries in place
ClearCache_keeping ==
    /\ cache' = cache
    /\ last' = Call("clear_cache", NoStr, FALSE, NoParams, Returned(NoStr), <<>>, <<>>)
    /\ tick' = ~tick
    /\ fresh' = Names
    /\ stored' = EmptyCache
    /\ repeat' = FALSE
    /\ UNCHANGED <<folder, strict, dir>>

ClearCache ==
    /\ cache' = EmptyCache
    /\ last' = Call("clear_cache", NoStr, FALSE, NoParams, Returned(NoStr), <<>>, <<>>)
    /\ tick' = ~tick
    /\ fresh' = Names
    /\ stored' = EmptyCache
    /\ repeat' = FALSE
    /\ UNCHANGED <<folder, strict, dir>>

(***************************************************************************)
(* The folder changes under the store: files are created, edited, deleted  *)
(***************************************************************************)
WriteFile(fname, data) ==
    /\ RegularFile(data) \in PossibleEntries(fname)
    /\ dir[fname].kind # "dir"
    /\ dir[fname] # RegularFile(data)
    /\ dir' = [dir EXCEPT ![fname] = RegularFile(data)]
    /\ UNCHANGED <<folder, strict, cache, last, tick, fresh, stored, repeat>>

DeleteFile(fname) ==
    /\ Absent \in PossibleEntries(fname)
    /\ dir[fname].kind # "absent"
    /\ dir' = [dir EXCEPT ![fname] = Absent]
    /\ UNCHANGED <<folder, strict, cache, last, tick, fresh, stored, repeat>>

MakeDir(fname) ==
    /\ Directory \in PossibleEntries(fname)
    /\ dir[fname].kind = "absent"
    /\ dir' = [dir EXCEPT ![fname] = Directory]
    /\ UNCHANGED <<folder, strict, cache, last, tick, fresh, stored, repeat>>

Next ==
    \/ ListPrompts
    \/ \E name \in Names : HasPrompt(name)
    \/ \E name \in Names, use_cache \in BOOLEAN : GetTemplate(name, use_cache)
    \/ \E name \in Names, params \in {NoParams, ParamsN} : Render(name, params)
    \/ ClearCache
    \/ \E fname \in FileNames, data \in Contents : WriteFile(fname, data)
    \/ \E fname \in FileNames : DeleteFile(fname)
    \/ \E fname \in FileNames : MakeDir(fname)

Spec == Init /\ [][Next]_vars


(***************************************************************************)
(* Rendering alone: a folder holding one prompt, b.yaml, a plain string    *)
(* that is any concatenation of at most MaxPieces pieces of template text  *)
(***************************************************************************)
Pieces ==
    { <<"H">>, <<"{", "n", "}">>, <<"{", "r", "}">>, <<"{", "n", "!", "r", "}">>,
      <<"{", "{">>, <<"}", "}">>, <<"{">>, <<"}">> }

RECURSIVE Concat(_)
Concat(ps) == IF ps = <<>> THEN <<>> ELSE Head(ps) \o Concat(Tail(ps))

Templates == { Concat(ps) : ps \in UNION { [1..k -> Pieces] : k \in 0..MaxPieces } }

OnePromptFolder(t) ==
    [f \in FileNames |-> IF f = <<"b">> \o YamlExt THEN RegularFile(StrData(t))
                         ELSE IF Absent \in PossibleEntries(f) THEN Absent
                         ELSE RegularFile(StrData(TemplateA))]

InitRender ==
    /\ folder = "prompts"
    /\ strict \in BOOLEAN
    /\ cache = EmptyCache
    /\ dir \in { OnePromptFolder(t) : t \in Templates }
    /\ last = NoCall
    /\ tick = FALSE
    /\ fresh = {}
    /\ stored = EmptyCache
    /\ repeat = FALSE

NextRender ==
    \/ \E params \in ParamChoices : Render(<<"b">>, params)
    \/ ClearCache

SpecRender == InitRender /\ [][NextRender]_vars


(***************************************************************************)
(* Properties                                                              *)
(***************************************************************************)
\* the step is a call of operation op on the store; its record is last'
IsCall(op) == tick' # tick /\ last'.op = op

\* the first regular file among <name>.yml then <name>.yaml, NoStr if there is none
FirstRegularFile(d, name) ==
    LET regular(f) == f \in DOMAIN d /\ d[f].kind = "file"
    IN  IF regular(name \o YmlExt) THEN name \o YmlExt
        ELSE IF regular(name \o YamlExt) THEN name \o YamlExt
        ELSE NoStr

\* the content is one of the two accepted shapes
Accepted(data) ==
    \/ data.type = "str"
    \/ data.type = "dict" /\ data.has_template /\ data.template_type = "str"

\* the outcome is a failure to find or load the prompt file
IsLoadFailure(out) ==
    \/ out.kind \in {"PromptNotFoundError", "YAMLError"}
    \/ /\ out.kind = "ValueError"
       /\ out.msg \in { "must contain either a plain string or a 'template' key",
                        "'template' must be a string", "Unsupported YAML content type" }

\* C1 (as stated): in every reachable state, has_prompt(x) is true iff
\* get_template(x) with the default use_cache=True does not raise PromptNotFoundError
C1_HasPromptIffGetTemplateFinds ==
    \A x \in Names :
        has_prompt(dir, x) <=> get_template(cache, dir, x, TRUE).out.kind # "PromptNotFoundError"

\* C1 (amended): has_prompt(x) is true iff get_template(x, use_cache=False) does
\* not raise PromptNotFoundError; with use_cache=True, get_template(x) does not
\* raise PromptNotFoundError iff has_prompt(x) is true or x is in the cache
C1_HasPromptIffUncachedGetTemplateFinds ==
    \A x \in Names :
        /\ has_prompt(dir, x) <=> get_template(cache, dir, x, FALSE).out.kind # "PromptNotFoundError"
        /\ (has_prompt(dir, x) \/ x \in DOMAIN cache)
               <=> get_template(cache, dir, x, TRUE).out.kind # "PromptNotFoundError"

\* has_prompt just answered False for a name that is in the cache
C1_Witness ==
    /\ last.op = "has_prompt"
    /\ last.out.ret = <<FALSE>>
    /\ last.name \in DOMAIN cache
    /\ get_template(cache, dir, last.name, TRUE).out.kind = "ok"

\* C2: get_template(name, use_cache=True) on a cached name returns the string
\* stored by the last successful load of name since the last clear_cache,
\* looks at no file and reads none, and leaves the cache unchanged
C2_CacheHitServedFromCache ==
    [][ (IsCall("get_template") /\ last'.use_cache /\ last'.name \in DOMAIN cache)
            => /\ last'.name \in DOMAIN stored
               /\ last'.out = Returned(stored[last'.name])
               /\ last'.out = Returned(cache[last'.name])
               /\ last'.stats = <<>>
               /\ last'.opens = <<>>
               /\ cache' = cache ]_vars

\* a cache hit returned a string while no file, or a file with other content, is on disk
C2_Witness ==
    /\ last.op = "get_template"
    /\ last.use_cache
    /\ last.out.kind = "ok"
    /\ last.stats = <<>>
    /\ \/ FirstRegularFile(dir, last.name) = NoStr
       \/ dir[FirstRegularFile(dir, last.name)].data.text # last.out.ret

\* C5: a get_template call that fails (no file resolves, or the content is not
\* an accepted shape) leaves the cache exactly as it was, a cached entry of
\* the name included, also with use_cache=False
C5_FailedLoadKeepsCache ==
    [][ (IsCall("get_template") /\ last'.out.kind # "ok") => cache' = cache ]_vars

\* get_template(name, use_cache=False) failed on a name that is, and stays, cached
C5_Witness ==
    /\ last.op = "get_template"
    /\ ~last.use_cache
    /\ last.out.kind \in {"ValueError", "PromptNotFoundError"}
    /\ last.name \in DOMAIN cache

\* C6: get_template with use_cache=False, or on an uncached name, when a file
\* resolves: it reads the first regular file among <name>.yml, <name>.yaml and
\* no other; when that file has an accepted shape it returns the file's
\* template string and the cache afterwards is the cache before with
\* cache[name] set to the returned string; otherwise it raises
C6_LoadsFirstFileAndCaches ==
    [][ (/\ IsCall("get_template")
         /\ (~last'.use_cache \/ last'.name \notin DOMAIN cache)
         /\ FirstRegularFile(dir, last'.name) # NoStr)
            => LET name == last'.name
                   f == FirstRegularFile(dir, name)
                   data == dir[f].data
               IN  /\ last'.opens = <<f>>
                   /\ Accepted(data) =>
                         /\ last'.out = Returned(data.text)
                         /\ DOMAIN cache' = DOMAIN cache \cup {name}
                         /\ cache'[name] = last'.out.ret
                         /\ \A n \in DOMAIN cache \ {name} : cache'[n] = cache[n]
                   /\ ~Accepted(data) => last'.out.kind # "ok" ]_vars

\* get_template(name, use_cache=False) replaced a cached entry by the content of
\* <name>.yaml, <name>.yml being a directory
C6_Witness ==
    /\ last.op = "get_template"
    /\ ~last.use_cache
    /\ last.out.kind = "ok"
    /\ last.name = <<"a", "b">>
    /\ dir[<<"a", "b">> \o YmlExt].kind = "dir"
    /\ last.opens = << <<"a", "b">> \o YamlExt >>
    /\ cache[last.name] = last.out.ret
    /\ DOMAIN cache = Names


\* C3: clear_cache() empties the cache whatever it held, and the first
\* get_template call on a name after it goes to the disk: it reads the file
\* that resolves for the name at that moment and returns the template string
\* that file holds then (it raises when no file resolves or the content is not
\* an accepted shape), whatever use_cache is
C3_ClearThenReload ==
    [][ /\ IsCall("clear_cache") => cache' = EmptyCache
        /\ (IsCall("get_template") /\ last'.name \in fresh)
               => LET f == FirstRegularFile(dir, last'.name)
                  IN  IF f = NoStr
                          THEN last'.out.kind = "PromptNotFoundError" /\ last'.opens = <<>>
                      ELSE /\ last'.opens = <<f>>
                           /\ Accepted(dir[f].data) => last'.out = Returned(dir[f].data.text)
                           /\ ~Accepted(dir[f].data) => last'.out.kind \notin {"ok", "PromptNotFoundError"} ]_vars

\* the cache was cleared and the first call since, get_template with
\* use_cache=True, read a file and returned its template string
C3_Witness ==
    /\ last.op = "get_template"
    /\ last.use_cache
    /\ last.out.kind = "ok"
    /\ last.opens # <<>>
    /\ fresh = Names \ {last.name}

\* C4 (as stated): two consecutive render calls with the same prompt name and
\* parameters and no clear_cache between them have the same outcome, and the
\* second reads no file, so that the two together read at most one
C4_ConsecutiveRendersAgree ==
    [][ (/\ IsCall("render")
         /\ last.op = "render"
         /\ last'.name = last.name
         /\ last'.params = last.params)
            => /\ last'.out = last.out
               /\ last'.opens = <<>>
               /\ Len(last.opens) + Len(last'.opens) <= 1 ]_vars

\* C4 (amended): the same, for a first call that obtained its template (it did
\* not fail to find or to load the prompt file)
C4_ConsecutiveRendersAgreeOnceLoaded ==
    [][ (/\ IsCall("render")
         /\ last.op = "render"
         /\ last'.name = last.name
         /\ last'.params = last.params
         /\ ~IsLoadFailure(last.out))
            => /\ last'.out = last.out
               /\ last'.stats = <<>>
               /\ last'.opens = <<>>
               /\ Len(last.opens) + Len(last'.opens) <= 1 ]_vars

\* a render directly repeated a render with the same arguments and returned a
\* string without reading, while no file resolves for the name any more
C4_Witness ==
    /\ repeat
    /\ last.op = "render"
    /\ last.out.kind = "ok"
    /\ last.opens = <<>>
    /\ FirstRegularFile(dir, last.name) = NoStr

\* file name f ends with the extension ext
EndsWith(f, ext) == Len(f) > Len(ext) /\ SubSeq(f, Len(f) - Len(ext) + 1, Len(f)) = ext

\* the base names of the regular files of d that end with .yml or .yaml
Listable(d) ==
    { SubSeq(p[1], 1, Len(p[1]) - Len(p[2])) :
        p \in { q \in (DOMAIN d) \X {YmlExt, YamlExt} : d[q[1]].kind = "file" /\ EndsWith(q[1], q[2]) } }

\* C9: list_prompts() returns exactly the base names of the regular .yml and
\* .yaml files of the folder as it is at the call, each once, in ascending
\* lexicographic order, whatever the cache holds, and changes nothing
C9_ListPromptsSortedBaseNames ==
    [][ IsCall("list_prompts")
            => LET r == last'.out.ret
               IN  /\ { r[i] : i \in 1..Len(r) } = Listable(dir)
                   /\ \A i, j \in 1..Len(r) : i < j => StrLess(r[i], r[j])
                   /\ cache' = cache
                   /\ dir' = dir ]_vars

\* list_prompts returned ["ab", "b"] for a folder holding ab.yml, ab.yaml,
\* b.yaml and b.txt, with a non-empty cache
C9_Witness ==
    /\ last.op = "list_prompts"
    /\ last.out.ret = << <<"a", "b">>, <<"b">> >>
    /\ \A f \in FileNames : dir[f].kind = "file"
    /\ DOMAIN cache # {}

\* C10: the cache starts empty; a step changes it only as a clear_cache call
\* (to empty) or as the insert of the string a get_template or render call
\* loaded from a file; has_prompt and list_prompts leave it unchanged; no step
\* changes the folder path or the strict flag, and no call changes the folder
C10_Frame ==
    /\ cache = EmptyCache
    /\ [][ /\ folder' = folder
           /\ strict' = strict
           /\ tick' # tick => dir' = dir
           /\ (IsCall("has_prompt") \/ IsCall("list_prompts")) => cache' = cache
           /\ cache' # cache =>
                \/ IsCall("clear_cache") /\ cache' = EmptyCache
                \/ /\ IsCall("get_template") \/ IsCall("render")
                   /\ last'.opens # <<>>
                   /\ ~IsLoadFailure(last'.out)
                   /\ DOMAIN cache' = DOMAIN cache \cup {last'.name}
                   /\ cache'[last'.name] = dir[last'.opens[1]].data.text
                   /\ \A n \in DOMAIN cache \ {last'.name} : cache'[n] = cache[n] ]_vars

\* has_prompt answered on a store whose cache holds an entry loaded earlier
C10_Witness ==
    /\ last.op = "has_prompt"
    /\ DOMAIN cache = {<<"b">>}
    /\ folder = "prompts"


(***************************************************************************)
(* Properties of rendering.  A template splits into text, doubled braces   *)
(* and placeholders {key} or {key!c}, key not empty and c one of r, s, a;  *)
(* it is well formed when no brace is left over.                           *)
(***************************************************************************)
\* t[i..j] is a placeholder
IsPlaceholder(t, i, j) ==
    LET inner == SubSeq(t, i + 1, j - 1)
        n == Len(inner)
        plain(k) == k # <<>> /\ \A x \in 1..Len(k) : k[x] \notin {"{", "}", "!"}
    IN  /\ t[i] = "{"
        /\ t[j] = "}"
        /\ \/ plain(inner)
           \/ /\ n >= 3
              /\ inner[n - 1] = "!"
              /\ inner[n] \in {"r", "s", "a"}
              /\ plain(SubSeq(inner, 1, n - 2))

\* the placeholder t[i..j]: its key, its conversion and its text in the template
Placeholder(t, i, j) ==
    LET inner == SubSeq(t, i + 1, j - 1)
        n == Len(inner)
        converted == n >= 3 /\ inner[n - 1] = "!"
    IN  [kind |-> "placeholder",
         key  |-> IF converted THEN SubSeq(inner, 1, n - 2) ELSE inner,
         conv |-> IF converted THEN <<inner[n]>> ELSE NoStr,
         text |-> SubSeq(t, i, j)]

TextSegment(s) == [kind |-> "text", key |-> NoStr, conv |-> NoStr, text |-> s]
StraySegment(s) == [kind |-> "stray", key |-> NoStr, conv |-> NoStr, text |-> s]

\* the segments of t from index i on: text (a doubled brace counts as the
\* single brace it stands for), placeholders, and braces that are neither
RECURSIVE Segments(_, _)
Segments(t, i) ==
    IF i > Len(t) THEN <<>>
    ELSE IF t[i] \notin {"{", "}"} THEN <<TextSegment(<<t[i]>>)>> \o Segments(t, i + 1)
    ELSE IF i < Len(t) /\ t[i + 1] = t[i] THEN <<TextSegment(<<t[i]>>)>> \o Segments(t, i + 2)
    ELSE LET closing == { j \in (i + 1)..Len(t) : t[j] = "}" }
             j == CHOOSE x \in closing : \A y \in closing : x <= y
         IN  IF t[i] = "{" /\ closing # {} /\ IsPlaceholder(t, i, j)
                 THEN <<Placeholder(t, i, j)>> \o Segments(t, j + 1)
             ELSE <<StraySegment(<<t[i]>>)>> \o Segments(t, i + 1)

WellFormed(t) == \A k \in 1..Len(Segments(t, 1)) : Segments(t, 1)[k].kind # "stray"

\* the placeholders of t in template order
PlaceholdersOf(t) == SelectSeq(Segments(t, 1), LAMBDA g : g.kind = "placeholder")

\* the string form of value v under a placeholder's conversion
StringForm(v, conv) == IF conv \in {<<"r">>, <<"a">>} THEN repr(v) ELSE str(v)

\* t with every placeholder whose key is in params replaced by the string form
\* of its value, and every other placeholder left as it is written in t
RECURSIVE Substituted(_, _)
Substituted(segs, params) ==
    IF segs = <<>> THEN <<>>
    ELSE LET g == Head(segs)
             piece == IF g.kind = "placeholder" /\ g.key \in DOMAIN params
                          THEN StringForm(params[g.key], g.conv)
                      ELSE g.text
         IN  piece \o Substituted(Tail(segs), params)

\* the template the last render call rendered
RenderedTemplate == cache[last.name]

\* the last call is a render that obtained its template
Rendered ==
    /\ last.op = "render"
    /\ last.name \in DOMAIN cache
    /\ ~IsLoadFailure(last.out)

\* what C7 says a strict render on the rendered template gives
StrictOutcome ==
    LET ph == PlaceholdersOf(RenderedTemplate)
        missing == { i \in 1..Len(ph) : ph[i].key \notin DOMAIN last.params }
    IN  IF missing = {}
            THEN Returned(Substituted(Segments(RenderedTemplate, 1), last.params))
        ELSE LET first == CHOOSE i \in missing : \A k \in missing : i <= k
             IN  Raised("PromptRenderError", "Missing parameter", ph[first].key, last.name)

\* C7 (as stated): in strict mode, render on a loadable template returns the
\* template with every placeholder replaced by the string form of its
\* parameter when every placeholder key is in params; otherwise it raises a
\* PromptRenderError carrying the key of the first placeholder, in template
\* order, whose key is missing, and the prompt name, and returns nothing
C7_StrictRenderAnyTemplate ==
    (strict /\ Rendered) => last.out = StrictOutcome

\* C7 (amended): the same, for a template that is well formed: its braces are
\* doubled (and come out single) or delimit a placeholder {key} or {key!r}
C7_StrictRenderWellFormed ==
    (strict /\ Rendered /\ WellFormed(RenderedTemplate)) => last.out = StrictOutcome

\* strict render of "{n}H{r}" with only n supplied raised the error naming r
C7_Witness ==
    /\ strict
    /\ Rendered
    /\ WellFormed(RenderedTemplate)
    /\ RenderedTemplate = <<"{", "n", "}", "H", "{", "r", "}">>
    /\ DOMAIN last.params = {KeyN}
    /\ last.out = Raised("PromptRenderError", "Missing parameter", KeyR, <<"b">>)

\* C8 (as stated): in non-strict mode, render on a loadable (well-formed)
\* template returns the template with every placeholder whose key is in
\* params substituted and every other placeholder, of whatever form, left as
\* it is written in the template; it raises nothing for a missing key
C8_LenientLeavesMissingVerbatim ==
    (~strict /\ Rendered /\ WellFormed(RenderedTemplate))
        => last.out = Returned(Substituted(Segments(RenderedTemplate, 1), last.params))


====
